---- MODULE Spec2Model ----
(***************************************************************************)
(* repo-architecture-map: the line scanners (_parse_compose_services,      *)
(* _parse_k8s_units, _sniff_env), the graph assembler (scan_repo over      *)
(* Graph.node / Graph.link) and the renderer (build_mermaid as called by   *)
(* cli.main).  Text is kept as text: a line is a string, a regular         *)
(* expression is an operator that walks the string.                        *)
(***************************************************************************)
EXTENDS Naturals, Sequences, FiniteSets, TLC

VARIABLES
    cText,            \* lines of the compose file (text.splitlines())
    services,         \* _parse_compose_services' ordered dict, as a sequence of entries
    kText,            \* lines of the manifest file
    units,            \* _parse_k8s_units' list of units
    envFiles,         \* contents of the .env / .env.* files
    env_hints,        \* scan_repo: what _sniff_env returned
    si,               \* scan_repo: next entry of services.items()
    ui,               \* scan_repo: next unit
    nodes,            \* Graph.nodes, in insertion order
    edges,            \* Graph.edges
    internet_needed,
    svc_names, dep_like_names, ingress_names,
    order,            \* iteration order of svc_names, dep_like_names, ingress_names
    sj,               \* selects loop: next index into order.svc
    ij,               \* routes loop: next index into order.ig
    pc,               \* position in the tail of scan_repo / main
    args,             \* cli arguments: theme, style, legend, dark
    out,              \* rendered lines
    run,              \* 1 for the first run of the pipeline, 2 for the second
    firstOut          \* the output of the first run

vars == <<cText, services, kText, units, envFiles, env_hints, si, ui, nodes, edges, internet_needed, svc_names,
          dep_like_names, ingress_names, order, sj, ij, pc, args, out, run,
          firstOut>>

-----------------------------------------------------------------------------
(* Bounds *)

MaxComposeLines == 4
MaxManifestLines == 4
MaxUnits == 2
MaxTwiceUnits == 3

-----------------------------------------------------------------------------
(* Strings and character classes *)

Ch(s, i) == SubSeq(s, i, i)

CharsOf(s) == {Ch(s, i) : i \in 1..Len(s)}

Upper == "ABCDEFGHIJKLMNOPQRSTUVWXYZ"
Lower == "abcdefghijklmnopqrstuvwxyz"
DigitStr == "0123456789"

\* The characters of the model's texts in code-point order.
Ascii == " \"'-./0123456789:ABCDEFGHIJKLMNOPQRSTUVWXYZ_abcdefghijklmnopqrstuvwxyz{}"

Space == {" ", "\t"}
Digits == CharsOf(DigitStr)
Letters == CharsOf(Upper) \cup CharsOf(Lower)
WordCh == Letters \cup Digits \cup {"_"}
\* [A-Za-z0-9._-]
KeyCh == Letters \cup Digits \cup {".", "_", "-"}
\* [a-z0-9\-_.]
K8sNameCh == CharsOf(Lower) \cup Digits \cup {"-", "_", "."}
\* [A-Za-z0-9:_\-/\.]
SafeCh == Letters \cup Digits \cup {":", "_", "-", "/", "."}

RECURSIVE IndexIn(_, _, _)
IndexIn(c, s, i) ==
    IF i > Len(s) THEN 0
    ELSE IF Ch(s, i) = c THEN i ELSE IndexIn(c, s, i + 1)

\* the rank of a character in code-point order
OrdOf == [c \in CharsOf(Ascii) |-> IndexIn(c, Ascii, 1)]

Ord(c) == OrdOf[c]

LowerOf == [c \in CharsOf(Upper) |-> Ch(Lower, IndexIn(c, Upper, 1))]

ToLowerCh(c) == IF c \in DOMAIN LowerOf THEN LowerOf[c] ELSE c

RECURSIVE LowerFrom(_, _)
\* s[i..] in lower case
LowerFrom(s, i) ==
    IF i > Len(s) THEN "" ELSE ToLowerCh(Ch(s, i)) \o LowerFrom(s, i + 1)

StrLower(s) == LowerFrom(s, 1)

RECURSIVE SkipWhile(_, _, _)
\* the first index j >= i of s whose character is outside C (Len(s)+1 if none)
SkipWhile(s, i, C) ==
    IF i <= Len(s) /\ Ch(s, i) \in C THEN SkipWhile(s, i + 1, C) ELSE i

\* the literal lit stands in s at index i
LitAt(s, i, lit) ==
    /\ i >= 1
    /\ i + Len(lit) - 1 <= Len(s)
    /\ SubSeq(s, i, i + Len(lit) - 1) = lit

LitAtNoCase(s, i, lit) ==
    /\ i >= 1
    /\ i + Len(lit) - 1 <= Len(s)
    /\ StrLower(SubSeq(s, i, i + Len(lit) - 1)) = StrLower(lit)

\* Python's `needle in s`
Contains(s, needle) == \E i \in 1..(Len(s) + 1) : LitAt(s, i, needle)

EndsWith(s, suf) == LitAt(s, Len(s) - Len(suf) + 1, suf)

StartsWith(s, pre) == LitAt(s, 1, pre)

RECURSIVE StrLess(_, _)
\* Python's s < t on str: code point by code point, a proper prefix first
StrLess(s, t) ==
    IF Len(t) = 0 THEN FALSE
    ELSE IF Len(s) = 0 THEN TRUE
    ELSE IF Ch(s, 1) = Ch(t, 1)
         THEN StrLess(SubSeq(s, 2, Len(s)), SubSeq(t, 2, Len(t)))
         ELSE Ord(Ch(s, 1)) < Ord(Ch(t, 1))

StrMin(S) == CHOOSE x \in S : \A y \in S \ {x} : StrLess(x, y)

RECURSIVE Sorted(_)
\* sorted(S) for a set of strings
Sorted(S) == IF S = {} THEN <<>> ELSE <<StrMin(S)>> \o Sorted(S \ {StrMin(S)})

RECURSIVE Join(_, _)
\* sep.join(seq)
Join(sep, seq) ==
    IF Len(seq) = 0 THEN ""
    ELSE IF Len(seq) = 1 THEN seq[1]
    ELSE seq[1] \o sep \o Join(sep, Tail(seq))

\* None is <<>>, a value v is <<v>>
None == <<>>
Some(v) == <<v>>

-----------------------------------------------------------------------------
(* _sanitize_id *)

SanitizeCh(c) == IF c \in SafeCh THEN c ELSE "_"

RECURSIVE SanitizeFrom(_, _)
\* re.sub(r"[^A-Za-z0-9:_\-/\.]", "_", nm), from position i on
SanitizeFrom(nm, i) ==
    IF i > Len(nm) THEN "" ELSE SanitizeCh(Ch(nm, i)) \o SanitizeFrom(nm, i + 1)

_sanitize_id(prefix, nm) == prefix \o ":" \o SanitizeFrom(nm, 1)

-----------------------------------------------------------------------------
(* _parse_compose_services *)

\* ^\s*services\s*:\s*$
ReServices(ln) ==
    LET a == SkipWhile(ln, 1, Space)
        c == SkipWhile(ln, a + Len("services"), Space)
        d == SkipWhile(ln, c + 1, Space)
    IN  /\ LitAt(ln, a, "services")
        /\ LitAt(ln, c, ":")
        /\ d = Len(ln) + 1

\* ^\s{2,}([A-Za-z0-9._-]+)\s*:\s*$   -> group(1)
ReServiceKey(ln) ==
    LET a == SkipWhile(ln, 1, Space)
        b == SkipWhile(ln, a, KeyCh)
        c == SkipWhile(ln, b, Space)
        d == SkipWhile(ln, c + 1, Space)
    IN  IF /\ a - 1 >= 2
           /\ b > a
           /\ LitAt(ln, c, ":")
           /\ d = Len(ln) + 1
        THEN Some(SubSeq(ln, a, b - 1))
        ELSE None

\* ^[A-Za-z].*:\s*$
ReRootKey(ln) ==
    /\ Len(ln) >= 1
    /\ Ch(ln, 1) \in Letters
    /\ \E k \in 2..Len(ln) :
          /\ Ch(ln, k) = ":"
          /\ SkipWhile(ln, k + 1, Space) = Len(ln) + 1

\* ^\s{6,}-\s*"?(\d+)\s*:\s*(\d+)(?:/(tcp|udp))?"?\s*$   -> <<group(1), group(2)>>
RePortItem(ln) ==
    LET a == SkipWhile(ln, 1, Space)
        b == SkipWhile(ln, a + 1, Space)
        c == IF LitAt(ln, b, "\"") THEN b + 1 ELSE b
        d == SkipWhile(ln, c, Digits)
        e == SkipWhile(ln, d, Space)
        f == SkipWhile(ln, e + 1, Space)
        g == SkipWhile(ln, f, Digits)
        h == IF LitAt(ln, g, "/tcp") \/ LitAt(ln, g, "/udp") THEN g + 4 ELSE g
        i == IF LitAt(ln, h, "\"") THEN h + 1 ELSE h
        j == SkipWhile(ln, i, Space)
    IN  IF /\ a - 1 >= 6
           /\ LitAt(ln, a, "-")
           /\ d > c
           /\ LitAt(ln, e, ":")
           /\ g > f
           /\ j = Len(ln) + 1
        THEN Some(<<SubSeq(ln, c, d - 1), SubSeq(ln, f, g - 1)>>)
        ELSE None

\* ^\s{6,}-\s*([A-Za-z0-9._-]+)\s*$   -> group(1)
ReListItem(ln) ==
    LET a == SkipWhile(ln, 1, Space)
        b == SkipWhile(ln, a + 1, Space)
        c == SkipWhile(ln, b, KeyCh)
        d == SkipWhile(ln, c, Space)
    IN  IF /\ a - 1 >= 6
           /\ LitAt(ln, a, "-")
           /\ c > b
           /\ d = Len(ln) + 1
        THEN Some(SubSeq(ln, b, c - 1))
        ELSE None

\* ^\s{6,}([A-Za-z0-9._-]+)\s*:\s*\{\s*condition\s*:\s*[A-Za-z_]+\s*\}\s*$   -> group(1)
ReDependsMap(ln) ==
    LET a == SkipWhile(ln, 1, Space)
        b == SkipWhile(ln, a, KeyCh)
        c == SkipWhile(ln, b, Space)
        d == SkipWhile(ln, c + 1, Space)
        e == SkipWhile(ln, d + 1, Space)
        f == SkipWhile(ln, e + Len("condition"), Space)
        g == SkipWhile(ln, f + 1, Space)
        h == SkipWhile(ln, g, Letters \cup {"_"})
        i == SkipWhile(ln, h, Space)
        j == SkipWhile(ln, i + 1, Space)
    IN  IF /\ a - 1 >= 6
           /\ b > a
           /\ LitAt(ln, c, ":")
           /\ LitAt(ln, d, "{")
           /\ LitAt(ln, e, "condition")
           /\ LitAt(ln, f, ":")
           /\ h > g
           /\ LitAt(ln, i, "}")
           /\ j = Len(ln) + 1
        THEN Some(SubSeq(ln, b, c - 1))
        ELSE None

\* dict: position of key nm in the ordered dict d (0 if absent)
RECURSIVE DictIndex(_, _, _)
DictIndex(d, nm, i) ==
    IF i > Len(d) THEN 0
    ELSE IF d[i].name = nm THEN i ELSE DictIndex(d, nm, i + 1)

\* services[svc_name] = {"ports": [], "depends": [], "nets": []}
DictReset(d, nm) ==
    LET fresh == [name |-> nm, ports |-> <<>>, depends |-> <<>>, nets |-> <<>>]
        k == DictIndex(d, nm, 1)
    IN  IF k = 0 THEN Append(d, fresh) ELSE [d EXCEPT ![k] = fresh]

\* the classification of one line inside an active service (core.py 115-131)
ServiceLine(d, nm, ln, prev) ==
    LET k == DictIndex(d, nm, 1)
        pitem == RePortItem(ln)
        ditem == ReListItem(ln)
        dmap == ReDependsMap(ln)
        nitem == ReListItem(ln)
        d1 == IF pitem # None
              THEN [d EXCEPT ![k].ports = Append(@, pitem[1])] ELSE d
        d2 == IF ditem # None /\ Contains(prev, "depends_on")
              THEN [d1 EXCEPT ![k].depends = Append(@, ditem[1])] ELSE d1
        d3 == IF dmap # None /\ Contains(prev, "depends_on")
              THEN [d2 EXCEPT ![k].depends = Append(@, dmap[1])] ELSE d2
        d4 == IF nitem # None /\ Contains(prev, "networks")
              THEN [d3 EXCEPT ![k].nets = Append(@, nitem[1])] ELSE d3
    IN  d4

\* one iteration of the loop over the lines (core.py 101-131); the result is
\* the new <<in_services, svc_name, services>>, svc_name being <<>> for None
ComposeLine(ins, sv, d, ln, prev) ==
    IF ReServices(ln) THEN <<TRUE, None, d>>
    ELSE IF ~ins THEN <<ins, sv, d>>
    ELSE IF ReServiceKey(ln) # None
         THEN LET ms == ReServiceKey(ln) IN <<ins, ms, DictReset(d, ms[1])>>
    ELSE IF sv = None /\ ReRootKey(ln) THEN <<FALSE, sv, d>>
    ELSE IF sv # None THEN <<ins, sv, ServiceLine(d, sv[1], ln, prev)>>
    ELSE <<ins, sv, d>>

RECURSIVE ParseFrom(_, _, _, _, _)
ParseFrom(lines, i, ins, sv, d) ==
    IF i > Len(lines) THEN d
    ELSE LET r == ComposeLine(ins, sv, d, lines[i],
                              IF i > 1 THEN lines[i - 1] ELSE "")
         IN  ParseFrom(lines, i + 1, r[1], r[2], r[3])

\* _parse_compose_services(text), text given as text.splitlines()
_parse_compose_services(lines) == ParseFrom(lines, 1, FALSE, None, <<>>)

-----------------------------------------------------------------------------
(* _parse_k8s_units *)

Kinds == {"Deployment", "StatefulSet", "DaemonSet", "Service", "Ingress"}

SvcTypes == {"LoadBalancer", "NodePort"}

Min(S) == CHOOSE x \in S : \A y \in S : x <= y

\* \b before a word character at index i
WordStart(ln, i) == i = 1 \/ Ch(ln, i - 1) \notin WordCh

\* \b after a word character at index i - 1
WordEnd(ln, i) == i > Len(ln) \/ Ch(ln, i) \notin WordCh

\* ^\s*kind\s*:\s*(Deployment|StatefulSet|DaemonSet|Service|Ingress)\s*$  -> group(1)
ReKind(ln) ==
    LET a == SkipWhile(ln, 1, Space)
        b == SkipWhile(ln, a + Len("kind"), Space)
        c == SkipWhile(ln, b + 1, Space)
        hit == {K \in Kinds : /\ LitAt(ln, c, K)
                               /\ SkipWhile(ln, c + Len(K), Space) = Len(ln) + 1}
    IN  IF LitAt(ln, a, "kind") /\ LitAt(ln, b, ":") /\ hit # {}
        THEN Some(CHOOSE K \in hit : TRUE)
        ELSE None

\* ^\s*name\s*:\s*([a-z0-9\-_.]+)\s*$  -> group(1)
ReName(ln) ==
    LET a == SkipWhile(ln, 1, Space)
        b == SkipWhile(ln, a + Len("name"), Space)
        c == SkipWhile(ln, b + 1, Space)
        d == SkipWhile(ln, c, K8sNameCh)
        e == SkipWhile(ln, d, Space)
    IN  IF /\ LitAt(ln, a, "name")
           /\ LitAt(ln, b, ":")
           /\ d > c
           /\ e = Len(ln) + 1
        THEN Some(SubSeq(ln, c, d - 1))
        ELSE None

\* key\s*:\s*(\d+) matched at index i -> the digits, or ""
NumberAfter(ln, i, key) ==
    LET b == SkipWhile(ln, i + Len(key), Space)
        c == SkipWhile(ln, b + 1, Space)
        d == SkipWhile(ln, c, Digits)
    IN  IF LitAt(ln, i, key) /\ LitAt(ln, b, ":") /\ d > c
        THEN SubSeq(ln, c, d - 1)
        ELSE ""

\* re.search(r"containerPort\s*:\s*(\d+)", ln)  -> group(1)
ReContainerPort(ln) ==
    LET at == {i \in 1..Len(ln) : NumberAfter(ln, i, "containerPort") # ""}
    IN  IF at = {} THEN None ELSE Some(NumberAfter(ln, Min(at), "containerPort"))

\* re.search(r"\bport\s*:\s*(\d+)", ln)  -> group(1)
RePort(ln) ==
    LET at == {i \in 1..Len(ln) :
                  WordStart(ln, i) /\ NumberAfter(ln, i, "port") # ""}
    IN  IF at = {} THEN None ELSE Some(NumberAfter(ln, Min(at), "port"))

\* \btype\s*:\s*(LoadBalancer|NodePort)\b with re.I matched at index i -> group(1), or ""
TypeAt(ln, i) ==
    LET b == SkipWhile(ln, i + Len("type"), Space)
        c == SkipWhile(ln, b + 1, Space)
        hit == {T \in SvcTypes : /\ LitAtNoCase(ln, c, T)
                                  /\ WordEnd(ln, c + Len(T))}
    IN  IF /\ WordStart(ln, i)
           /\ LitAtNoCase(ln, i, "type")
           /\ LitAt(ln, b, ":")
           /\ hit # {}
        THEN SubSeq(ln, c, c + Len(CHOOSE T \in hit : TRUE) - 1)
        ELSE ""

\* re.search(r"\btype\s*:\s*(LoadBalancer|NodePort)\b", ln, flags=re.I)  -> group(1)
ReType(ln) ==
    LET at == {i \in 1..Len(ln) : TypeAt(ln, i) # ""}
    IN  IF at = {} THEN None ELSE Some(TypeAt(ln, Min(at)))

\* kind = None; name = None; ports = set(); svc_type = None; is_ingress = False
NewDoc == [kind |-> None, name |-> None, ports |-> {}, svc_type |-> None,
           ingress |-> FALSE]

\* the service-type lines of the loop body (core.py 163-165)
SvcTypeLine(doc, ln) ==
    LET mt == ReType(ln)
    IN  IF doc.kind = Some("Service") /\ mt # None
        THEN [doc EXCEPT !.svc_type = mt]
        ELSE doc

\* one iteration of the loop over a document's lines (core.py 148-168)
K8sLine(doc, ln) ==
    LET m1 == ReKind(ln)
        m2 == ReName(ln)
    IN
    IF m1 # None THEN [doc EXCEPT !.kind = m1]
    ELSE IF doc.name = None /\ m2 # None THEN [doc EXCEPT !.name = m2]
    ELSE LET mcp == ReContainerPort(ln)
             msp == RePort(ln)
             d1 == IF mcp # None
                   THEN [doc EXCEPT !.ports = @ \cup {mcp[1]}] ELSE doc
             d2 == IF msp # None /\ doc.kind = Some("Service")
                   THEN [d1 EXCEPT !.ports = @ \cup {msp[1]}] ELSE d1
             d3 == SvcTypeLine(d2, ln)
             d4 == IF doc.kind = Some("Ingress")
                   THEN [d3 EXCEPT !.ingress = TRUE] ELSE d3
         IN  d4

\* if kind and name: units.append({...})
EndDoc(us, doc) ==
    IF doc.kind # None /\ doc.name # None
    THEN Append(us, [kind |-> doc.kind[1], name |-> doc.name[1],
                     ports |-> doc.ports, svc_type |-> doc.svc_type,
                     ingress |-> doc.ingress])
    ELSE us

\* a line on which re.split(r"\n---\s*\n", text) cuts the text: a newline
\* stands before it and after it
IsSeparator(lines, i) ==
    /\ i > 1
    /\ i < Len(lines)
    /\ LitAt(lines[i], 1, "---")
    /\ SkipWhile(lines[i], 4, Space) = Len(lines[i]) + 1

RECURSIVE UnitsFrom(_, _, _, _)
\* the loop over the documents and their lines (core.py 146-170)
UnitsFrom(lines, i, doc, us) ==
    IF i > Len(lines) THEN EndDoc(us, doc)
    ELSE IF IsSeparator(lines, i)
         THEN UnitsFrom(lines, i + 1, NewDoc, EndDoc(us, doc))
         ELSE UnitsFrom(lines, i + 1, K8sLine(doc, lines[i]), us)

\* _parse_k8s_units(text), text given as its lines
_parse_k8s_units(lines) == UnitsFrom(lines, 1, NewDoc, <<>>)

-----------------------------------------------------------------------------
(* _sniff_env *)

DB_HINTS == {
    <<"postgres", "Postgres">>, <<"postgresql", "Postgres">>, <<"psql", "Postgres">>,
    <<"redis", "Redis">>, <<"rediscache", "Redis">>,
    <<"mongo", "MongoDB">>, <<"mongodb", "MongoDB">>,
    <<"mysql", "MySQL">>, <<"mariadb", "MariaDB">>,
    <<"kafka", "Kafka">>, <<"rabbit", "RabbitMQ">>, <<"amqp", "RabbitMQ">>,
    <<"elasticsearch", "Elasticsearch">>, <<"opensearch", "OpenSearch">> }

_sniff_env(files) ==
    LET texts == {StrLower(t) : t \in files}
    IN  {h[2] : h \in {x \in DB_HINTS : \E t \in texts : Contains(t, x[1])}}

-----------------------------------------------------------------------------
(* Graph: a graph value is [nodes |-> <<Node, ...>>, edges |-> <<Edge, ...>>] *)

RECURSIVE NodeIndex(_, _, _)
\* position of id in the node mapping (0 if absent)
NodeIndex(ns, id, i) ==
    IF i > Len(ns) THEN 0
    ELSE IF ns[i].id = id THEN i ELSE NodeIndex(ns, id, i + 1)

\* dict.update on meta, a set of <<key, value>>
MetaUpdate(m, new) == {x \in m : \A y \in new : y[1] # x[1]} \cup new

\* mutant: the label of the later fact replaces the label
KeepLabel_overwrite(old, new) == new

\* n.label = n.label or label
KeepLabel(old, new) == IF old = "" THEN new ELSE old

\* Graph.node(id, label, group, add_tag=..., ports=..., **meta)
GraphNode(g, id, label, group, add_tag, ports, meta) ==
    LET lbl == IF label = "" THEN id ELSE label
        ns == IF NodeIndex(g.nodes, id, 1) = 0
              THEN Append(g.nodes, [id |-> id, label |-> lbl, group |-> group,
                                    tags |-> {}, ports |-> {}, meta |-> {}])
              ELSE g.nodes
        k == NodeIndex(ns, id, 1)
    IN  [g EXCEPT !.nodes =
            [ns EXCEPT ![k] = [id |-> ns[k].id,
                               label |-> KeepLabel(ns[k].label, lbl),
                               group |-> ns[k].group,
                               tags |-> ns[k].tags \cup add_tag,
                               ports |-> ns[k].ports \cup ports,
                               meta |-> MetaUpdate(ns[k].meta, meta)]]]

\* n.tags.add(...) / n.tags.update(...) on the node g.node returned
AddTags(g, id, tags) ==
    LET k == NodeIndex(g.nodes, id, 1)
    IN  [g EXCEPT !.nodes[k].tags = @ \cup tags]

\* Graph.link(a, b, label)
GraphLink(g, a, b, label) ==
    [g EXCEPT !.edges = Append(@, [src |-> a, dst |-> b, label |-> label])]

EmptyGraph == [nodes |-> <<>>, edges |-> <<>>]

-----------------------------------------------------------------------------
(* scan_repo *)

\* f"{name}{(':'+','.join(sorted(ports))) if ports else ''}"
PortLabel(nm, ports) ==
    IF ports = {} THEN nm ELSE nm \o ":" \o Join(",", Sorted(ports))

\* mutant: the edge is added without the placeholder node
AddDependency_noNode(g, nid, dep) ==
    GraphLink(g, nid, _sanitize_id("compose", dep), "depends_on")

\* one dependency of a compose service (core.py 230-232)
AddDependency(g, nid, dep) ==
    LET did == _sanitize_id("compose", dep)
    IN  GraphLink(GraphNode(g, did, dep, "compose", {}, {}, {}),
                  nid, did, "depends_on")

RECURSIVE AddDependencies(_, _, _, _)
AddDependencies(g, nid, deps, i) ==
    IF i > Len(deps) THEN g
    ELSE AddDependencies(AddDependency(g, nid, deps[i]), nid, deps, i + 1)

\* the host ports of a service: {h for (h, c) in info["ports"]}
HostPorts(info) == {info.ports[i][1] : i \in 1..Len(info.ports)}

\* one iteration of the loop over services.items() (core.py 224-232)
ComposeService(g, e) ==
    LET nid == _sanitize_id("compose", e.name)
        ports == HostPorts(e)
        g1 == GraphNode(g, nid, PortLabel(e.name, ports), "compose", {}, ports, {})
        g2 == IF ports # {} THEN AddTags(g1, nid, {"public"}) ELSE g1
    IN  AddDependencies(g2, nid, e.depends, 1)

Workloads == {"Deployment", "StatefulSet", "DaemonSet"}

\* the tags a unit's kind puts on its node (core.py 245-254)
UnitTags(u) ==
    IF u.kind = "Service"
    THEN {"svc"} \cup (IF u.svc_type # None THEN {"public"} ELSE {})
    ELSE IF u.kind \in Workloads THEN {"workload"}
    ELSE IF u.kind = "Ingress" THEN {"ingress", "public"}
    ELSE {}

\* whether a unit records internet exposure (core.py 248, 253)
UnitExposes(u) ==
    \/ u.kind = "Service" /\ u.svc_type # None
    \/ u.kind = "Ingress"

\* one iteration of the loop over the units (core.py 240-254)
UnitNode(g, u) ==
    LET nid == _sanitize_id("k8s", u.name)
        g1 == GraphNode(g, nid, PortLabel(u.name, u.ports), "k8s", {}, u.ports,
                        {<<"kind", u.kind>>})
    IN  AddTags(g1, nid, UnitTags(u))

\* re.sub(r"-(svc|service)$", "", nm)
StripSuffix(nm) ==
    IF EndsWith(nm, "-svc") THEN SubSeq(nm, 1, Len(nm) - Len("-svc"))
    ELSE IF EndsWith(nm, "-service") THEN SubSeq(nm, 1, Len(nm) - Len("-service"))
    ELSE nm

\* mutant: the -api suffix is left out of the candidates
_variants_noApi(nm) ==
    LET base == StripSuffix(nm)
    IN  {nm, base, base \o "-svc", base \o "-service", base \o "-app"}

\* scan_repo._variants
_variants(nm) ==
    LET base == StripSuffix(nm)
    IN  {nm, base, base \o "-svc", base \o "-service", base \o "-api", base \o "-app"}

RECURSIVE FirstIn(_, _, _)
\* next((d for d in seq if d in candidates), None)
FirstIn(seq, candidates, i) ==
    IF i > Len(seq) THEN None
    ELSE IF seq[i] \in candidates THEN Some(seq[i])
    ELSE FirstIn(seq, candidates, i + 1)

\* one iteration of either linking loop (core.py 263-267, 270-274)
HeuristicLink(g, nm, targets, label) ==
    LET match == FirstIn(targets, _variants(nm), 1)
    IN  IF match # None /\ match[1] # ""
        THEN GraphLink(g, _sanitize_id("k8s", nm), _sanitize_id("k8s", match[1]), label)
        ELSE g

\* the orders a set can be iterated in
Perms(S) == {q \in [1..Cardinality(S) -> S] : {q[i] : i \in 1..Cardinality(S)} = S}

RECURSIVE ExtNodes(_, _, _)
\* for label in sorted(env_hints): g.node(...)  (core.py 277-278)
ExtNodes(g, labels, i) ==
    IF i > Len(labels) THEN g
    ELSE ExtNodes(GraphNode(g, _sanitize_id("ext", StrLower(labels[i])), labels[i],
                            "external", {"db"}, {}, {}),
                  labels, i + 1)

\* the node test of the uses loop (core.py 284)
UsesDb(n) ==
    /\ n.group \in {"compose", "k8s"}
    /\ ("svc" \in n.tags \/ "workload" \in n.tags \/ n.group = "compose")

\* mutant: the last label instead of the first
UsesTarget_last(hints) ==
    _sanitize_id("ext", StrLower(Sorted(hints)[Cardinality(hints)]))

\* sorted(env_hints)[0]
UsesTarget(hints) == _sanitize_id("ext", StrLower(Sorted(hints)[1]))

RECURSIVE UsesEach(_, _, _, _)
\* for n in list(g.nodes.values()): if ...: g.link(n.id, target_ext, "uses")
UsesEach(g, ns, i, target) ==
    IF i > Len(ns) THEN g
    ELSE UsesEach(IF UsesDb(ns[i]) THEN GraphLink(g, ns[i].id, target, "uses") ELSE g,
                  ns, i + 1, target)

\* Link runtime services to DBs (core.py 281-285)
UsesLinks(g, hints) ==
    IF hints # {} THEN UsesEach(g, g.nodes, 1, UsesTarget(hints)) ELSE g

\* the node test of the exposure loop (core.py 291)
IsExposed(n) == "public" \in n.tags /\ n.id # "ext:internet"

RECURSIVE ExposeEach(_, _, _)
\* for n in list(g.nodes.values()): if ...: g.link("ext:internet", n.id)
ExposeEach(g, ns, i) ==
    IF i > Len(ns) THEN g
    ELSE ExposeEach(IF IsExposed(ns[i]) THEN GraphLink(g, "ext:internet", ns[i].id, "") ELSE g,
                    ns, i + 1)

\* Internet node if any public exposure (core.py 288-292)
InternetLinks(g, needed) ==
    IF needed
    THEN LET g1 == GraphNode(g, "ext:internet", "Internet", "external", {"public"}, {}, {})
         IN  ExposeEach(g1, g1.nodes, 1)
    ELSE g

-----------------------------------------------------------------------------
(* build_mermaid *)

EscCh(c) == IF c = "\"" THEN "'" ELSE c

RECURSIVE EscFrom(_, _)
EscFrom(s, i) ==
    IF i > Len(s) THEN "" ELSE EscCh(Ch(s, i)) \o EscFrom(s, i + 1)

\* s.replace("\"", "'")
_esc(s) == EscFrom(s, 1)

_theme_block(theme, prefer_dark) ==
    LET t == IF theme = "auto" THEN (IF prefer_dark THEN "dark" ELSE "light") ELSE theme
    IN  IF t = "plain" THEN "%%{init: {'flowchart': {'curve': 'monotoneX'}}}%%"
        ELSE IF t = "dark"
        THEN "%%{init: {'theme':'dark','flowchart':{'curve':'monotoneX'},"
             \o "'themeVariables':{'primaryColor':'#0ea5e9','primaryTextColor':'#ffffff','lineColor':'#38bdf8'}}}%%"
        ELSE IF t = "light"
        THEN "%%{init: {'theme':'base','flowchart':{'curve':'monotoneX'},"
             \o "'themeVariables':{'primaryColor':'#0ea5e9','primaryTextColor':'#111827','lineColor':'#0ea5e9'}}}%%"
        ELSE "%%{init: {'flowchart': {'curve': 'monotoneX'}}}%%"

ClassDefs(style) ==
    IF style # "plain"
    THEN << "  classDef compose fill:#0ea5e9,stroke:#0369a1,color:#fff,stroke-width:1px;",
            "  classDef k8s fill:#22c55e,stroke:#166534,color:#062;",
            "  classDef external fill:#e2e8f0,stroke:#64748b,color:#111;",
            "  classDef public stroke-dasharray: 3 2,stroke-width:2px;",
            "  classDef db fill:#fde68a,stroke:#b45309,color:#3b2f00;" >>
    ELSE <<>>

\* mutant: the class lines are written whatever the style
ClassLines_anyStyle(n, group, style) ==
    <<"    class \"" \o n.id \o "\" " \o group \o ";">>
    \o (IF "public" \in n.tags THEN <<"    class \"" \o n.id \o "\" public;">> ELSE <<>>)
    \o (IF "db" \in n.tags THEN <<"    class \"" \o n.id \o "\" db;">> ELSE <<>>)

\* the class lines of one node (core.py 347-352)
ClassLines(n, group, style) ==
    IF style # "plain"
    THEN <<"    class \"" \o n.id \o "\" " \o group \o ";">>
         \o (IF "public" \in n.tags THEN <<"    class \"" \o n.id \o "\" public;">> ELSE <<>>)
         \o (IF "db" \in n.tags THEN <<"    class \"" \o n.id \o "\" db;">> ELSE <<>>)
    ELSE <<>>

\* the lines of one node of a subgraph (core.py 343-352)
NodeLines(n, group, style) ==
    LET shape_open == IF "db" \in n.tags THEN "(" ELSE "["
        shape_close == IF "db" \in n.tags THEN ")" ELSE "]"
    IN  <<"    \"" \o n.id \o "\"" \o shape_open \o _esc(n.label) \o shape_close>>
        \o ClassLines(n, group, style)

RECURSIVE ItemLines(_, _, _, _)
ItemLines(items, i, group, style) ==
    IF i > Len(items) THEN <<>>
    ELSE NodeLines(items[i], group, style) \o ItemLines(items, i + 1, group, style)

\* build_mermaid.subgraph
Subgraph(g, title, group, style) ==
    LET InGroup(n) == n.group = group
        items == SelectSeq(g.nodes, InGroup)
    IN  IF items = <<>> THEN <<>>
        ELSE <<"  subgraph " \o title>> \o ItemLines(items, 1, group, style) \o <<"  end">>

\* one edge line (core.py 361-362)
EdgeLine(e) ==
    LET label == IF e.label # "" THEN " |" \o _esc(e.label) \o "|" ELSE ""
    IN  "  \"" \o e.src \o "\" -->" \o label \o " \"" \o e.dst \o "\""

Legend(include_legend) ==
    IF include_legend
    THEN << "  %% Legend",
            "  subgraph Legend",
            "    legend_compose[Compose]:::compose",
            "    legend_k8s[Kubernetes]:::k8s",
            "    legend_ext[External]:::external",
            "    legend_pub[Public Exposure]:::public",
            "    legend_db(DB Service):::db",
            "  end" >>
    ELSE <<>>

\* the code fence: three backquotes in the source, a character a TLA+ string
\* cannot hold
Fence == "~~~"

\* build_mermaid(g, theme=, style=, include_legend=): the lines it joins
build_mermaid(g, theme, style, include_legend, prefer_dark) ==
    <<Fence \o "mermaid", _theme_block(theme, prefer_dark), "flowchart LR">>
    \o ClassDefs(style)
    \o Subgraph(g, "Compose", "compose", style)
    \o Subgraph(g, "Kubernetes", "k8s", style)
    \o Subgraph(g, "External", "external", style)
    \o [i \in 1..Len(g.edges) |-> EdgeLine(g.edges[i])]
    \o Legend(include_legend)
    \o <<Fence>>

\* the include_legend argument that cli.main passes (cli.py 33)
IncludeLegend(a) == a.legend \/ a.style = "fancy"

MainRender(g, a) == build_mermaid(g, a.theme, a.style, IncludeLegend(a), a.dark)

-----------------------------------------------------------------------------
(* Inputs *)

\* all sequences over S of length at most n
SeqsUpTo(S, n) == UNION {[1..k -> S] : k \in 0..n}

RECURSIVE Flatten(_)
\* the concatenation of a sequence of sequences
Flatten(ss) == IF ss = <<>> THEN <<>> ELSE Head(ss) \o Flatten(Tail(ss))

\* compose files written the way the scanner credits ports and dependencies
\* to the service (a comment after the nested key), and the idiomatic way
WebBlocks == {
    <<>>,
    <<"  web:", "    ports:", "      - \"8080:80\"">>,
    <<"  web:", "    ports: # host", "      - \"8080:80\"">>,
    <<"  web:", "    depends_on: # first", "      - db">> }

DbBlocks == {
    <<>>,
    <<"  db:", "    ports: # host", "      - 5432:5432/tcp">> }

ComposeTexts ==
    {<<>>}
    \cup {<<"services:">> \o w \o d : w \in WebBlocks, d \in DbBlocks}
    \cup {<<"services:">> \o d \o w : w \in WebBlocks, d \in DbBlocks}

\* free-form compose text: any lines of ComposeLines in any order
ComposeLines == {
    "services:", "  web:", "    ports:", "      - \"8080:80\"",
    "    depends_on:", "      - db", "volumes:", "  data:" }

\* one manifest document
ServiceDoc(nm, type) ==
    <<"kind: Service", "metadata:", "  name: " \o nm>>
    \o (IF type = "" THEN <<>> ELSE <<"  type: " \o type>>)
    \o <<"  - port: 80">>

WorkloadDoc(nm) ==
    <<"kind: Deployment", "metadata:", "  name: " \o nm, "  - containerPort: 8080">>

IngressDoc(nm) ==
    <<"kind: Ingress", "metadata:", "  name: " \o nm>>

Docs == {
    ServiceDoc("orders-svc", "LoadBalancer"), ServiceDoc("orders-api", ""),
    WorkloadDoc("orders-api"), WorkloadDoc("orders-svc"),
    IngressDoc("orders-svc") }

RECURSIVE JoinDocs(_)
\* the documents of one file, "---" between them
JoinDocs(ds) ==
    IF ds = <<>> THEN <<>>
    ELSE IF Len(ds) = 1 THEN ds[1]
    ELSE ds[1] \o <<"---">> \o JoinDocs(Tail(ds))

ManifestTexts(n) == {JoinDocs(ds) : ds \in SeqsUpTo(Docs, n)}

\* free-form manifest text: any lines of ManifestLines in any order
ManifestLines == {
    "kind: Service", "kind: Deployment", "kind: Ingress", "  name: payments",
    "  type: LoadBalancer", "  type: NodePort", "  - port: 80", "---" }

EnvTexts == {"REDIS_URL=redis://cache:6379", "MONGO_URL=mongodb://db/app"}

Themes == {"auto", "plain"}
Styles == {"fancy", "plain"}

\* the values parse_args can return: the dark flag stands for the environment
\* signals _theme_block reads when the theme is auto
ArgValues ==
    {a \in [theme : Themes, style : Styles, legend : BOOLEAN, dark : BOOLEAN] :
        a.dark => a.theme = "auto"}

\* argparse's defaults (cli.py 22-24)
DefaultArgs == [theme |-> "auto", style |-> "fancy", legend |-> FALSE, dark |-> FALSE]

-----------------------------------------------------------------------------
(* The pipeline: cli.main -> scan_repo -> build_mermaid *)

graph == [nodes |-> nodes, edges |-> edges]

\* the state before any file is read
Start ==
    /\ env_hints = {}
    /\ services = <<>>
    /\ units = <<>>
    /\ si = 1
    /\ ui = 1
    /\ nodes = <<>>
    /\ edges = <<>>
    /\ internet_needed = FALSE
    /\ svc_names = {}
    /\ dep_like_names = {}
    /\ ingress_names = {}
    /\ order = [svc |-> <<>>, dep |-> <<>>, ig |-> <<>>]
    /\ sj = 1
    /\ ij = 1
    /\ pc = "start"
    /\ args = DefaultArgs
    /\ out = <<>>
    /\ run = 1
    /\ firstOut = <<>>

Init ==
    /\ cText \in ComposeTexts
    /\ kText \in ManifestTexts(MaxUnits)
    /\ envFiles \in SUBSET EnvTexts
    /\ Start

InitCompose ==
    /\ cText \in SeqsUpTo(ComposeLines, MaxComposeLines)
    /\ kText = <<>>
    /\ envFiles \in {{}}
    /\ Start

InitK8s ==
    /\ cText = <<>>
    /\ kText \in SeqsUpTo(ManifestLines, MaxManifestLines)
    /\ envFiles \in {{}}
    /\ Start

InitTwice ==
    /\ cText = <<>>
    /\ kText \in ManifestTexts(MaxTwiceUnits)
    /\ envFiles \in {{}}
    /\ Start

inputs == <<cText, kText, envFiles>>
files == <<cText, kText, envFiles, env_hints>>
k8sSets == <<svc_names, dep_like_names, ingress_names>>
loops == <<order, sj, ij>>
rendering == <<args, out, run, firstOut>>

\* env_hints = _sniff_env(root)  (core.py 217)
SniffEnv ==
    /\ pc = "start"
    /\ env_hints' = _sniff_env(envFiles)
    /\ pc' = "compose_file"
    /\ UNCHANGED <<inputs, services, units, si, ui, nodes, edges, internet_needed,
                   k8sSets, loops, rendering>>

\* services = _parse_compose_services(_safe_read(f))  (core.py 223)
ReadCompose ==
    /\ pc = "compose_file"
    /\ services' = _parse_compose_services(cText)
    /\ pc' = "compose"
    /\ UNCHANGED <<files, units, si, ui, nodes, edges, internet_needed, k8sSets,
                   loops, rendering>>

\* for name, info in services.items()  (core.py 224-232)
ComposeStep ==
    /\ pc = "compose"
    /\ si <= Len(services)
    /\ LET g == ComposeService(graph, services[si])
       IN  /\ nodes' = g.nodes
           /\ edges' = g.edges
    /\ internet_needed' = (internet_needed \/ HostPorts(services[si]) # {})
    /\ si' = si + 1
    /\ UNCHANGED <<files, services, units, ui, k8sSets, loops, pc, rendering>>

\* _parse_k8s_units(_safe_read(f))  (core.py 239)
ReadManifest ==
    /\ pc = "compose"
    /\ si > Len(services)
    /\ units' = _parse_k8s_units(kText)
    /\ pc' = "k8s"
    /\ UNCHANGED <<files, services, si, ui, nodes, edges, internet_needed, k8sSets,
                   loops, rendering>>

\* for u in units  (core.py 239-254)
UnitStep ==
    /\ pc = "k8s"
    /\ ui <= Len(units)
    /\ LET u == units[ui]
           g == UnitNode(graph, u)
       IN  /\ nodes' = g.nodes
           /\ edges' = g.edges
           /\ internet_needed' = (internet_needed \/ UnitExposes(u))
           /\ svc_names' = IF u.kind = "Service" THEN svc_names \cup {u.name}
                           ELSE svc_names
           /\ dep_like_names' = IF u.kind \in Workloads
                                THEN dep_like_names \cup {u.name} ELSE dep_like_names
           /\ ingress_names' = IF u.kind = "Ingress" THEN ingress_names \cup {u.name}
                               ELSE ingress_names
    /\ ui' = ui + 1
    /\ UNCHANGED <<files, services, units, si, loops, pc, rendering>>

\* the order in which this process iterates the three sets: it depends on the
\* string hashes of the process, so every order is possible  (core.py 262-272)
EnumerateSets ==
    /\ pc = "k8s"
    /\ ui > Len(units)
    /\ \E s \in Perms(svc_names), d \in Perms(dep_like_names), i \in Perms(ingress_names) :
          order' = [svc |-> s, dep |-> d, ig |-> i]
    /\ pc' = "link"
    /\ UNCHANGED <<files, services, units, si, ui, nodes, edges, internet_needed,
                   k8sSets, sj, ij, rendering>>

\* for s in list(svc_names)  (core.py 262-267)
SelectStep ==
    /\ pc = "link"
    /\ sj <= Len(order.svc)
    /\ LET g == HeuristicLink(graph, order.svc[sj], order.dep, "selects")
       IN  /\ nodes' = g.nodes
           /\ edges' = g.edges
    /\ sj' = sj + 1
    /\ UNCHANGED <<files, services, units, si, ui, internet_needed, k8sSets, order,
                   ij, pc, rendering>>

\* for ig in list(ingress_names)  (core.py 269-274)
RouteStep ==
    /\ pc = "link"
    /\ sj > Len(order.svc)
    /\ ij <= Len(order.ig)
    /\ LET g == HeuristicLink(graph, order.ig[ij], order.svc, "routes")
       IN  /\ nodes' = g.nodes
           /\ edges' = g.edges
    /\ ij' = ij + 1
    /\ UNCHANGED <<files, services, units, si, ui, internet_needed, k8sSets, order,
                   sj, pc, rendering>>

\* External DB nodes (core.py 277-278)
ExtStep ==
    /\ pc = "link"
    /\ sj > Len(order.svc)
    /\ ij > Len(order.ig)
    /\ LET g == ExtNodes(graph, Sorted(env_hints), 1)
       IN  /\ nodes' = g.nodes
           /\ edges' = g.edges
    /\ pc' = "uses"
    /\ UNCHANGED <<files, services, units, si, ui, internet_needed, k8sSets, loops,
                   rendering>>

\* Link runtime services to DBs (core.py 281-285)
UsesStep ==
    /\ pc = "uses"
    /\ LET g == UsesLinks(graph, env_hints)
       IN  /\ nodes' = g.nodes
           /\ edges' = g.edges
    /\ pc' = "internet"
    /\ UNCHANGED <<files, services, units, si, ui, internet_needed, k8sSets, loops,
                   rendering>>

\* Internet node if any public exposure (core.py 288-292)
InternetStep ==
    /\ pc = "internet"
    /\ LET g == InternetLinks(graph, internet_needed)
       IN  /\ nodes' = g.nodes
           /\ edges' = g.edges
    /\ pc' = "render"
    /\ UNCHANGED <<files, services, units, si, ui, internet_needed, k8sSets, loops,
                   rendering>>

\* mermaid = core.build_mermaid(graph, theme=..., style=..., include_legend=...)
\* (cli.py 26, 33); a second run is given the arguments of the first
Render ==
    /\ pc = "render"
    /\ \E a \in (IF run = 1 THEN ArgValues ELSE {args}) :
          /\ args' = a
          /\ out' = MainRender(graph, a)
    /\ pc' = "done"
    /\ UNCHANGED <<files, services, units, si, ui, nodes, edges, internet_needed,
                   k8sSets, loops, run, firstOut>>

\* the same command run again on the same files
Rerun ==
    /\ pc = "done"
    /\ run = 1
    /\ run' = 2
    /\ firstOut' = out
    /\ out' = <<>>
    /\ services' = <<>>
    /\ units' = <<>>
    /\ si' = 1
    /\ ui' = 1
    /\ nodes' = <<>>
    /\ edges' = <<>>
    /\ internet_needed' = FALSE
    /\ svc_names' = {}
    /\ dep_like_names' = {}
    /\ ingress_names' = {}
    /\ order' = [svc |-> <<>>, dep |-> <<>>, ig |-> <<>>]
    /\ sj' = 1
    /\ ij' = 1
    /\ env_hints' = {}
    /\ pc' = "start"
    /\ UNCHANGED <<inputs, args>>

Next ==
    \/ SniffEnv
    \/ ReadCompose
    \/ ComposeStep
    \/ ReadManifest
    \/ UnitStep
    \/ EnumerateSets
    \/ SelectStep
    \/ RouteStep
    \/ ExtStep
    \/ UsesStep
    \/ InternetStep
    \/ Render

Spec == Init /\ [][Next]_vars

\* the compose scanner on free-form text, then the assembly of what it found
NextCompose ==
    \/ SniffEnv
    \/ ReadCompose
    \/ ComposeStep
    \/ ReadManifest
    \/ EnumerateSets
    \/ ExtStep
    \/ UsesStep
    \/ InternetStep
    \/ Render

SpecCompose == InitCompose /\ [][NextCompose]_vars

\* the manifest scanner on free-form text, then the assembly of what it found
NextK8s ==
    \/ SniffEnv
    \/ ReadCompose
    \/ ReadManifest
    \/ UnitStep
    \/ EnumerateSets
    \/ SelectStep
    \/ RouteStep
    \/ ExtStep
    \/ UsesStep
    \/ InternetStep
    \/ Render

SpecK8s == InitK8s /\ [][NextK8s]_vars

\* the pipeline on a manifest of up to MaxTwiceUnits documents, and run a
\* second time on the same files
NextTwice ==
    \/ SniffEnv
    \/ ReadCompose
    \/ ReadManifest
    \/ UnitStep
    \/ EnumerateSets
    \/ SelectStep
    \/ RouteStep
    \/ ExtStep
    \/ UsesStep
    \/ InternetStep
    \/ Render
    \/ Rerun

SpecTwice == InitTwice /\ [][NextTwice]_vars

-----------------------------------------------------------------------------
(* Properties *)

Range(q) == {q[i] : i \in 1..Len(q)}

NodeIds == {n.id : n \in Range(nodes)}

HasEdge(a, b, label) == [src |-> a, dst |-> b, label |-> label] \in Range(edges)

\* the positions of the edges with this label that leave id
EdgesFrom(id, label) ==
    {i \in 1..Len(edges) : edges[i].src = id /\ edges[i].label = label}

Indent(ln) == SkipWhile(ln, 1, Space) - 1

\* the line is `<indent>key:` -> <<key>>, otherwise <<>>
KeyOf(ln) ==
    LET a == SkipWhile(ln, 1, Space)
        b == SkipWhile(ln, a, KeyCh)
    IN  IF b > a /\ LitAt(ln, b, ":") /\ SkipWhile(ln, b + 1, Space) = Len(ln) + 1
        THEN <<SubSeq(ln, a, b - 1)>>
        ELSE <<>>

\* C1: the idiomatic layout, a port list under `ports:` under service S under
\* `services:`
IdiomaticPorts(S) ==
    \E i \in 1..Len(cText) :
        /\ i + 3 <= Len(cText)
        /\ cText[i] = "services:"
        /\ cText[i + 1] = "  " \o S \o ":"
        /\ cText[i + 2] = "    ports:"
        /\ cText[i + 3] = "      - \"8080:80\""

\* C1: for a compose text in the idiomatic layout, the node compose:S carries
\* port "8080" and tag public, and there is an edge ext:internet -> compose:S.
C1_IdiomaticPortIsPublic ==
    pc = "done" =>
        \A S \in {"web", "data"} :
            IdiomaticPorts(S) =>
                /\ \E n \in Range(nodes) :
                      /\ n.id = "compose:" \o S
                      /\ "8080" \in n.ports
                      /\ "public" \in n.tags
                /\ HasEdge("ext:internet", "compose:" \o S, "")

\* C8: line j is a key line directly under the top-level `services:` line i:
\* indented, and no line from i+1 to j is indented less than it
DirectlyUnder(i, j) ==
    /\ i < j
    /\ Indent(cText[i]) = 0
    /\ KeyOf(cText[i]) = <<"services">>
    /\ KeyOf(cText[j]) # <<>>
    /\ Indent(cText[j]) > 0
    /\ \A k \in (i + 1)..j : Indent(cText[k]) >= Indent(cText[j])

\* C8: the compose scanner only under-extracts: every key of the mapping is
\* the name of a key line directly under the top-level `services:` block, and
\* text with no `services:` line yields the empty mapping.
C8_OnlyUnderExtracts ==
    pc \notin {"start", "compose_file"} =>
        /\ \A e \in Range(services) :
              \E i \in 1..Len(cText), j \in 1..Len(cText) :
                  DirectlyUnder(i, j) /\ KeyOf(cText[j]) = <<e.name>>
        /\ (\A i \in 1..Len(cText) : KeyOf(cText[i]) # <<"services">>)
              => services = <<>>

\* C6: the text is one document with the lines `kind: Service`,
\* `name: payments` and a `type:` line of LoadBalancer or NodePort, in any order
ServiceDocument ==
    /\ {"kind: Service", "  name: payments"} \subseteq Range(kText)
    /\ Range(kText) \cap {"  type: LoadBalancer", "  type: NodePort"} # {}
    /\ Range(kText) \subseteq {"kind: Service", "  name: payments",
                               "  type: LoadBalancer", "  type: NodePort",
                               "  - port: 80"}

\* C6: for such a document, wherever its lines stand, the unit has svc_type
\* set and the node k8s:payments is tagged svc and public.
C6_TypeAnywhere ==
    (pc = "done" /\ ServiceDocument) =>
        /\ \E u \in Range(units) :
              u.kind = "Service" /\ u.name = "payments" /\ u.svc_type # None
        /\ \E n \in Range(nodes) :
              n.id = "k8s:payments" /\ {"svc", "public"} \subseteq n.tags

\* C2: two runs of the pipeline on the same inputs with the same arguments
\* produce the same output, whatever order the sets are iterated in.
C2_SameOutput == (run = 2 /\ pc = "done") => out = firstOut

\* C10: no selects or routes edge is a self-loop.
C10_NoSelfLoop ==
    \A e \in Range(edges) : e.label \in {"selects", "routes"} => e.src # e.dst

HasLegend == "  subgraph Legend" \in Range(out)

IsClassLine(l) == StartsWith(l, "  classDef ") \/ StartsWith(l, "    class ")

HasGroupClass(n) == ("    class \"" \o n.id \o "\" " \o n.group \o ";") \in Range(out)

\* C3 as stated: with style=plain the output has no classDef/class line and no
\* Legend sub-block, whatever the legend flag; with style=fancy it has a group
\* class line for every node and a Legend sub-block.
C3_PlainNeverLegend ==
    pc = "done" =>
        /\ args.style = "plain" =>
              /\ \A l \in Range(out) : ~IsClassLine(l)
              /\ ~HasLegend
        /\ args.style = "fancy" =>
              /\ \A n \in Range(nodes) : HasGroupClass(n)
              /\ HasLegend

\* C3 amended: with style=plain the output has no classDef/class line, and it
\* has the Legend sub-block exactly when the legend flag is set; with
\* style=fancy it has a group class line for every node and a Legend sub-block.
C3_LegendFollowsFlag ==
    pc = "done" =>
        /\ args.style = "plain" =>
              /\ \A l \in Range(out) : ~IsClassLine(l)
              /\ HasLegend <=> args.legend
        /\ args.style = "fancy" =>
              /\ \A n \in Range(nodes) : HasGroupClass(n)
              /\ HasLegend

C3_Witness ==
    /\ pc = "done"
    /\ args.style = "plain"
    /\ args.legend
    /\ HasLegend
    /\ Len(nodes) >= 2

\* the nodes the uses loop is meant to link
RunsCode(n) ==
    \/ n.group = "compose"
    \/ n.group = "k8s" /\ n.tags \cap {"svc", "workload"} # {}

FirstLabel == CHOOSE l \in env_hints : \A m \in env_hints : l = m \/ StrLess(l, m)

\* C4: with a non-empty set of hint labels, every compose node and every k8s
\* node tagged svc or workload is the source of exactly one uses edge, every
\* uses edge targets the node of the alphabetically-first label, and no other
\* node is the source of one; with an empty set there is no uses edge.
C4_UsesFirstLabel ==
    pc = "done" =>
        IF env_hints = {}
        THEN \A e \in Range(edges) : e.label # "uses"
        ELSE /\ \A n \in Range(nodes) :
                   Cardinality(EdgesFrom(n.id, "uses")) = (IF RunsCode(n) THEN 1 ELSE 0)
             /\ \A e \in Range(edges) :
                   e.label = "uses" =>
                       /\ e.dst = "ext:" \o StrLower(FirstLabel)
                       /\ \E n \in Range(nodes) :
                             n.id = e.dst /\ n.label = FirstLabel /\ "db" \in n.tags

C4_Witness ==
    /\ pc = "done"
    /\ Cardinality(env_hints) = 2
    /\ \E n \in Range(nodes) : n.group = "compose"
    /\ \E n \in Range(nodes) : n.group = "k8s" /\ "svc" \in n.tags
    /\ \E n \in Range(nodes) : n.group = "k8s" /\ n.tags \cap {"svc", "workload"} = {}
    /\ \E e \in Range(edges) : e.label = "uses"

ServiceNames == {u.name : u \in {v \in Range(units) : v.kind = "Service"}}

WorkloadNames == {u.name : u \in {v \in Range(units) : v.kind \in Workloads}}

\* s with a trailing -svc or -service stripped
BaseOf(s) ==
    IF EndsWith(s, "-svc") THEN SubSeq(s, 1, Len(s) - 4)
    ELSE IF EndsWith(s, "-service") THEN SubSeq(s, 1, Len(s) - 8)
    ELSE s

CandidateSet(s) ==
    {s, BaseOf(s), BaseOf(s) \o "-svc", BaseOf(s) \o "-service",
     BaseOf(s) \o "-api", BaseOf(s) \o "-app"}

\* the general rule of C5: at most one selects edge per Service, exactly one
\* when a workload name is in the candidate set, its target in that set
SelectsRule ==
    \A s \in ServiceNames :
        LET from == EdgesFrom("k8s:" \o s, "selects")
            hits == WorkloadNames \cap CandidateSet(s)
        IN  /\ Cardinality(from) <= 1
            /\ hits # {} => Cardinality(from) = 1
            /\ \A i \in from : \E w \in hits : edges[i].dst = "k8s:" \o w

\* C5 as stated: the general rule, and Service orders-svc with Deployment
\* orders-api yields the edge k8s:orders-svc -> k8s:orders-api.
C5_OrdersEdgeAlways ==
    pc = "done" =>
        /\ SelectsRule
        /\ ("orders-svc" \in ServiceNames /\ "orders-api" \in WorkloadNames)
              => HasEdge("k8s:orders-svc", "k8s:orders-api", "selects")

\* C5 amended: the general rule, and Service orders-svc with Deployment
\* orders-api yields that edge when orders-api is the only collected workload
\* name in the candidate set of orders-svc.
C5_OrdersEdgeWhenOnlyCandidate ==
    pc = "done" =>
        /\ SelectsRule
        /\ ("orders-svc" \in ServiceNames
              /\ WorkloadNames \cap CandidateSet("orders-svc") = {"orders-api"})
              => HasEdge("k8s:orders-svc", "k8s:orders-api", "selects")

C5_Witness ==
    /\ pc = "done"
    /\ "orders-svc" \in ServiceNames
    /\ WorkloadNames = {"orders-api"}
    /\ HasEdge("k8s:orders-svc", "k8s:orders-api", "selects")

\* C7: both ends of every edge are keys of the node mapping, and a dependency
\* name that no service declares has a placeholder node.
C7_EdgesHaveNodes ==
    /\ \A e \in Range(edges) : e.src \in NodeIds /\ e.dst \in NodeIds
    /\ pc = "done" =>
          \A e \in Range(services) : \A dep \in Range(e.depends) :
              \E n \in Range(nodes) : n.id = "compose:" \o dep /\ n.group = "compose"

C7_Witness ==
    /\ pc = "done"
    /\ \E e \in Range(services) : \E dep \in Range(e.depends) :
          /\ \A f \in Range(services) : f.name # dep
          /\ "compose:" \o dep \in NodeIds
          /\ HasEdge("compose:" \o e.name, "compose:" \o dep, "depends_on")
    /\ \E e \in Range(edges) : e.label = "uses"
    /\ \E e \in Range(edges) : e.label = "selects"
    /\ \E e \in Range(edges) : e.label = ""

\* C9: the node registry only grows: an id is never removed or duplicated,
\* its group stays, its label once non-empty stays, its tags and ports only
\* gain elements, and the edge list only gains elements at its end.
C9_RegistryOnlyGrows ==
    [][ /\ Len(nodes') >= Len(nodes)
        /\ \A i \in 1..Len(nodes) :
              /\ nodes'[i].id = nodes[i].id
              /\ nodes'[i].group = nodes[i].group
              /\ nodes[i].label # "" => nodes'[i].label = nodes[i].label
              /\ nodes[i].tags \subseteq nodes'[i].tags
              /\ nodes[i].ports \subseteq nodes'[i].ports
        /\ \A i \in 1..Len(nodes'), j \in 1..Len(nodes') :
              nodes'[i].id = nodes'[j].id => i = j
        /\ Len(edges') >= Len(edges)
        /\ SubSeq(edges', 1, Len(edges)) = edges ]_vars

\* a placeholder node that a later declaration merged into: its label is the
\* placeholder's, its ports and tags are the declaration's
C9_Witness ==
    \E n \in Range(nodes) :
        /\ n.id = "compose:db"
        /\ n.label = "db"
        /\ "5432" \in n.ports
        /\ "public" \in n.tags

====
